---- MODULE Spec2Model ----
(***************************************************************************)
(* Model of app.py: a Flask application with a credential store (USERS,    *)
(* persisted in users.json), a cookie session per caller, and a protected  *)
(* predict route that saves an uploaded image, runs the classifier on it   *)
(* and maps the probability vector to a label.                             *)
(*                                                                         *)
(* Passwords, salts and image contents are numbered.  Each caller is a     *)
(* browser with one cookie jar (the Flask session) that has at most one    *)
(* request in flight; requests of different callers run on                 *)
(* different threads of the server and interleave between statements that  *)
(* touch shared state (USERS, users.json, the upload folder).              *)
(*                                                                         *)
(* Three specifications share the definitions:                             *)
(*   Spec            the four routes, with save_users as one step;         *)
(*   StoreSpec       register requests alone, with the write of users.json *)
(*                   split where the file object buffers the text;         *)
(*   ClassifierSpec  the model file, load_model, one model.predict call    *)
(*                   and the mapping of its vector to the result.          *)
(***************************************************************************)
EXTENDS Integers, Sequences, FiniteSets, TLC

\* ---- bounds of the model ----
MaxPw == 2
MaxSalt == 1
MaxImg == 1
MaxLevel == 2

\* ---- the callers and what they send ----
Callers == {"c1", "c2"}
Identities == {"a@x", "b@x"}
Emails == {""} \cup Identities
Passwords == 0..MaxPw          \* 0 is the empty password
Salts == 1..MaxSalt
Filenames == {"", "eye.png"}
Bytes == 0..MaxImg             \* 0: bytes that do not decode; 1..MaxImg: images
Methods == {"GET", "POST"}

VARIABLES USERS, users_json, session, uploads, pc, req, resp

\* The classifier on its own: the model loaded at startup, the vector of one
\* model.predict call and what predict derives from it.
VARIABLES model, preds, shown

appvars == <<USERS, users_json, session, uploads, pc, req, resp>>

vars == <<USERS, users_json, session, uploads, pc, req, resp, model, preds, shown>>

\* ---- werkzeug.security ----
\* A digest is one-way and collision-free over the modelled passwords.
Digest(salt, password) == salt * (MaxPw + 1) + password

generate_password_hash(salt, password) ==
    [salt |-> salt, digest |-> Digest(salt, password)]

\* A comparison that drops the last bit of the digest.
check_password_hash_Truncated(pwhash, password) ==
    Digest(pwhash.salt, password) \div 2 = pwhash.digest \div 2

check_password_hash(pwhash, password) ==
    Digest(pwhash.salt, password) = pwhash.digest

Hashes == {generate_password_hash(s, p) : s \in Salts, p \in Passwords}

\* ---- dict / folder updates ----
Put(d, k, v) == [x \in DOMAIN d \cup {k} |-> IF x = k THEN v ELSE d[x]]

Empty == [x \in {} |-> 0]

\* ---- responses ----
NoResult == <<>>

Redirect(target, msg) ==
    [kind |-> "redirect", target |-> target, flash |-> msg, result |-> NoResult]

Render(template, msg, result) ==
    [kind |-> "render", target |-> template, flash |-> msg, result |-> result]

InternalError ==
    [kind |-> "error", target |-> "500", flash |-> "", result |-> NoResult]

NoResp == [kind |-> "none", target |-> "", flash |-> "", result |-> NoResult]

\* What a request in flight holds in its locals: the form fields of register
\* and the text json.dump has written to the open file object, or the uploaded
\* file (request.files["image"]: its filename and content).
NoReq == [email |-> "", password |-> 0, buffer |-> Empty, filename |-> "", bytes |-> 0]

\* ---- classifier and result mapping ----
CLASSES == <<"No Diabetic Retinopathy", "Mild", "Moderate", "Severe", "Proliferative DR">>

\* an explanation table keyed by an abbreviated label
LEVEL_INFO_Abbreviated ==
    ("No DR" :> "Healthy retina. No treatment needed.")
    @@ ("Mild" :> "Early stage. Regular monitoring advised.")
    @@ ("Moderate" :> "Blood vessel damage present. Doctor consultation required.")
    @@ ("Severe" :> "High risk of vision loss. Immediate treatment needed.")
    @@ ("Proliferative DR" :> "Critical stage. Surgery or laser treatment required.")

LEVEL_INFO ==
    ("No Diabetic Retinopathy" :> "Healthy retina. No treatment needed.")
    @@ ("Mild" :> "Early stage. Regular monitoring advised.")
    @@ ("Moderate" :> "Blood vessel damage present. Doctor consultation required.")
    @@ ("Severe" :> "High risk of vision loss. Immediate treatment needed.")
    @@ ("Proliferative DR" :> "Critical stage. Surgery or laser treatment required.")

\* Probabilities are counted in units of 0.00001; a confidence is a percentage
\* counted in hundredths.
\* The shipped model is opaque: a fixed function from the decoded image to a
\* vector of five probabilities.
ModelPredict(img) ==
    IF img % 2 = 1 THEN <<2000, 5000, 10000, 73000, 10000>>
                   ELSE <<40004, 4996, 40004, 4996, 10000>>

\* np.argmax scans from the left and moves only to a strictly larger entry
\* (indices are 1-based here, 0-based in the code).
RECURSIVE ArgMaxFrom(_, _, _)
ArgMaxFrom(a, i, best) ==
    IF i > Len(a) THEN best
    ELSE ArgMaxFrom(a, i + 1, IF a[i] > a[best] THEN i ELSE best)

\* a scan that also moves to an equal entry: the last maximum
RECURSIVE ArgMaxFrom_Last(_, _, _)
ArgMaxFrom_Last(a, i, best) ==
    IF i > Len(a) THEN best
    ELSE ArgMaxFrom_Last(a, i + 1, IF a[i] >= a[best] THEN i ELSE best)

ArgMax_Last(a) == ArgMaxFrom_Last(a, 2, 1)

ArgMax(a) == ArgMaxFrom(a, 2, 1)

\* round(float(p) * 100, 2): to the nearest hundredth of a percent.  A float32
\* probability times 100 is never exactly halfway between two hundredths.
Confidence(p) == (p + 5) \div 10

\* What the lookups of lines 143 and 145 raise.
IndexError == <<"IndexError">>
KeyError == <<"KeyError">>
ValueError == <<"ValueError">>

\* lines 141-145: prediction, confidence, explanation
ResultOf(v) ==
    LET idx == ArgMax(v)
    IN  IF idx \notin DOMAIN CLASSES THEN IndexError
        ELSE LET prediction == CLASSES[idx]
             IN  IF prediction \notin DOMAIN LEVEL_INFO THEN KeyError
                 ELSE <<prediction, Confidence(v[idx]), LEVEL_INFO[prediction]>>

\* lines 140-146: the result and the image reference handed to the template
PredictionResult(filename, img) == ResultOf(ModelPredict(img)) \o <<filename>>

\* The model file shipped with the application.
ShippedModel == [state |-> "loaded", input |-> 299, outputs |-> 5]

\* ---- initial state: first start, no users.json, no cookies ----
AppInit ==
    /\ USERS = Empty
    /\ users_json = Empty
    /\ session = [c \in Callers |-> {}]
    /\ uploads = Empty
    /\ pc = [c \in Callers |-> "idle"]
    /\ req = [c \in Callers |-> NoReq]
    /\ resp = [c \in Callers |-> NoResp]

Init ==
    /\ AppInit
    /\ model = ShippedModel
    /\ preds = <<>>
    /\ shown = NoResult

Respond(c, r) ==
    /\ pc' = [pc EXCEPT ![c] = "idle"]
    /\ req' = [req EXCEPT ![c] = NoReq]
    /\ resp' = [resp EXCEPT ![c] = r]

\* ---- /register ----
\* Register requests are POSTs; a GET only renders the form (line 83).
\* register without the membership test of line 74
RegisterPost_NoMembershipTest(c, email, password) ==
    /\ pc[c] = "idle"
    /\ pc' = [pc EXCEPT ![c] = "reg_store"]
    /\ req' = [req EXCEPT ![c] = [NoReq EXCEPT !.email = email, !.password = password]]
    /\ resp' = [resp EXCEPT ![c] = NoResp]
    /\ UNCHANGED <<USERS, users_json, session, uploads, model, preds, shown>>

\* lines 70-76: read the form, test membership
RegisterPost(c, email, password) ==
    /\ pc[c] = "idle"
    /\ IF email \in DOMAIN USERS
       THEN Respond(c, Redirect("register", "User already exists"))
       ELSE /\ pc' = [pc EXCEPT ![c] = "reg_store"]
            /\ req' = [req EXCEPT ![c] = [NoReq EXCEPT !.email = email, !.password = password]]
            /\ resp' = [resp EXCEPT ![c] = NoResp]
    /\ UNCHANGED <<USERS, users_json, session, uploads, model, preds, shown>>

\* line 78
RegisterStore(c) ==
    /\ pc[c] = "reg_store"
    /\ \E salt \in Salts :
          USERS' = Put(USERS, req[c].email, generate_password_hash(salt, req[c].password))
    /\ pc' = [pc EXCEPT ![c] = "reg_save"]
    /\ req' = [req EXCEPT ![c].password = 0]
    /\ UNCHANGED <<users_json, session, uploads, resp, model, preds, shown>>

\* lines 28-30 when no other request writes the file meanwhile
save_users(users) == users_json' = users

\* lines 79-81
RegisterSave(c) ==
    /\ pc[c] = "reg_save"
    /\ save_users(USERS)
    /\ Respond(c, Redirect("login", "Registration successful! Please login."))
    /\ UNCHANGED <<USERS, session, uploads, model, preds, shown>>

\* ---- /login ----
LoginRejected(sess, method, email, password) ==
    IF sess # {}
    THEN [resp |-> Redirect("predict", ""), sess |-> sess]
    ELSE IF method = "POST"
    THEN IF email = "" \/ password = 0
         THEN [resp |-> Redirect("login", "Please enter email and password"), sess |-> sess]
         ELSE [resp |-> Redirect("login", "Wrong email or password"), sess |-> sess]
    ELSE [resp |-> Render("login.html", "", NoResult), sess |-> sess]

\* login that accepts any password of a registered identity
LoginResult_AnyPassword(sess, users, method, email, password) ==
    IF sess = {} /\ method = "POST" /\ email # "" /\ password # 0 /\ email \in DOMAIN users
    THEN [resp |-> Redirect("predict", "Login successful!"), sess |-> {email}]
    ELSE LoginRejected(sess, method, email, password)

\* login that reports success without storing the identity in the session
LoginResult_NoSession(sess, users, method, email, password) ==
    IF /\ sess = {} /\ method = "POST" /\ email # "" /\ password # 0
       /\ email \in DOMAIN users /\ check_password_hash(users[email], password)
    THEN [resp |-> Redirect("predict", "Login successful!"), sess |-> sess]
    ELSE LoginRejected(sess, method, email, password)

\* login that tells an unknown identity from a wrong password
LoginResult_UnknownUserMessage(sess, users, method, email, password) ==
    IF sess = {} /\ method = "POST" /\ email # "" /\ password # 0
    THEN IF email \notin DOMAIN users
         THEN [resp |-> Redirect("login", "Unknown email"), sess |-> sess]
         ELSE IF check_password_hash(users[email], password)
              THEN [resp |-> Redirect("predict", "Login successful!"), sess |-> {email}]
              ELSE [resp |-> Redirect("login", "Wrong email or password"), sess |-> sess]
    ELSE LoginRejected(sess, method, email, password)

\* login that binds the supplied identity before checking the password
LoginResult_BindsBeforeCheck(sess, users, method, email, password) ==
    IF sess # {}
    THEN [resp |-> Redirect("predict", ""), sess |-> sess]
    ELSE IF method = "POST"
    THEN IF email = "" \/ password = 0
         THEN [resp |-> Redirect("login", "Please enter email and password"), sess |-> sess]
         ELSE IF email \in DOMAIN users /\ check_password_hash(users[email], password)
              THEN [resp |-> Redirect("predict", "Login successful!"), sess |-> {email}]
              ELSE [resp |-> Redirect("login", "Wrong email or password"), sess |-> {email}]
    ELSE [resp |-> Render("login.html", "", NoResult), sess |-> sess]

\* The response and the session after a login request.
LoginResult(sess, users, method, email, password) ==
    IF sess # {}
    THEN [resp |-> Redirect("predict", ""), sess |-> sess]
    ELSE IF method = "POST"
    THEN IF email = "" \/ password = 0
         THEN [resp |-> Redirect("login", "Please enter email and password"), sess |-> sess]
         ELSE IF email \in DOMAIN users /\ check_password_hash(users[email], password)
              THEN [resp |-> Redirect("predict", "Login successful!"), sess |-> {email}]
              ELSE [resp |-> Redirect("login", "Wrong email or password"), sess |-> sess]
    ELSE [resp |-> Render("login.html", "", NoResult), sess |-> sess]

\* A GET request carries no form.
Login(c, method, email, password) ==
    /\ pc[c] = "idle"
    /\ method = "GET" => email = "" /\ password = 0
    /\ LET r == LoginResult(session[c], USERS, method, email, password)
       IN  /\ session' = [session EXCEPT ![c] = r.sess]
           /\ Respond(c, r.resp)
    /\ UNCHANGED <<USERS, users_json, uploads, model, preds, shown>>

\* ---- /logout ----
LogoutResponse == Render("logout.html", "Logged out successfully", NoResult)

\* logout that answers without clearing the session
Logout_KeepsSession(c) ==
    /\ pc[c] = "idle"
    /\ Respond(c, LogoutResponse)
    /\ UNCHANGED <<USERS, users_json, session, uploads, model, preds, shown>>

\* logout that fails when there is no identity to remove (session.pop("user"))
Logout_RequiresSession(c) ==
    /\ pc[c] = "idle"
    /\ session' = [session EXCEPT ![c] = {}]
    /\ Respond(c, IF session[c] = {} THEN InternalError ELSE LogoutResponse)
    /\ UNCHANGED <<USERS, users_json, uploads, model, preds, shown>>

Logout(c) ==
    /\ pc[c] = "idle"
    /\ session' = [session EXCEPT ![c] = {}]
    /\ Respond(c, LogoutResponse)
    /\ UNCHANGED <<USERS, users_json, uploads, model, preds, shown>>

\* ---- /predict ----
\* a decorator that lets every request through
login_required_Off(sess) == TRUE

\* True when the wrapped view is called, false when the caller is redirected.
login_required(sess) == sess # {}

\* predict without the empty-filename test of line 129
Predict_NoFilenameCheck(c, method, filename, bytes) ==
    /\ pc[c] = "idle"
    /\ method = "GET" => filename = "" /\ bytes = 0
    /\ IF ~login_required(session[c])
       THEN Respond(c, Redirect("login", "")) /\ UNCHANGED uploads
       ELSE IF method = "GET"
       THEN Respond(c, Render("prediction.html", "", NoResult)) /\ UNCHANGED uploads
       ELSE /\ uploads' = Put(uploads, filename, bytes)
            /\ pc' = [pc EXCEPT ![c] = "pred_load"]
            /\ req' = [req EXCEPT ![c] = [NoReq EXCEPT !.filename = filename, !.bytes = bytes]]
            /\ resp' = [resp EXCEPT ![c] = NoResp]
    /\ UNCHANGED <<USERS, users_json, session, model, preds, shown>>

\* lines 35-41 and 125-134.  Everything up to file.save reads only the request,
\* so the save is the first statement that other requests can observe.
Predict(c, method, filename, bytes) ==
    /\ pc[c] = "idle"
    /\ method = "GET" => filename = "" /\ bytes = 0
    /\ IF ~login_required(session[c])
       THEN Respond(c, Redirect("login", "")) /\ UNCHANGED uploads
       ELSE IF method = "GET"
       THEN Respond(c, Render("prediction.html", "", NoResult)) /\ UNCHANGED uploads
       ELSE IF filename = ""
       THEN Respond(c, Redirect("predict", "Please upload an image")) /\ UNCHANGED uploads
       ELSE /\ uploads' = Put(uploads, filename, bytes)
            /\ pc' = [pc EXCEPT ![c] = "pred_load"]
            /\ req' = [req EXCEPT ![c] = [NoReq EXCEPT !.filename = filename, !.bytes = bytes]]
            /\ resp' = [resp EXCEPT ![c] = NoResp]
    /\ UNCHANGED <<USERS, users_json, session, model, preds, shown>>

\* lines 136-154: the image is read back from the upload folder.  load_img
\* raises on bytes that do not decode; nothing catches it, so the request ends
\* in Flask's internal-error response before model.predict is reached.
PredictInfer(c) ==
    /\ pc[c] = "pred_load"
    /\ LET img == uploads[req[c].filename]
       IN  IF img = 0
           THEN Respond(c, InternalError)
           ELSE Respond(c, Render("prediction.html", "", PredictionResult(req[c].filename, img)))
    /\ UNCHANGED <<USERS, users_json, session, uploads, model, preds, shown>>

Next ==
    \/ \E c \in Callers, e \in Identities, p \in Passwords : RegisterPost(c, e, p)
    \/ \E c \in Callers : RegisterStore(c)
    \/ \E c \in Callers : RegisterSave(c)
    \/ \E c \in Callers, m \in Methods, e \in Emails, p \in Passwords : Login(c, m, e, p)
    \/ \E c \in Callers : Logout(c)
    \/ \E c \in Callers, m \in Methods, f \in Filenames, b \in Bytes : Predict(c, m, f, b)
    \/ \E c \in Callers : PredictInfer(c)

Spec == Init /\ [][Next]_vars

\* ---- the credential store on its own: register requests, with the write of
\* users.json in the steps in which other requests can observe it ----
\* a file whose content is not the JSON text of a dict
Garbled == [x \in {"garbled"} |-> 0]

\* Writing text at offset 0 of a file that has content: a text at least as long
\* replaces it, a shorter one leaves the tail of the old content behind it.
\* All identities have the same length and so have all hashes.
Overwrite(cur, buf) ==
    IF cur # Garbled /\ Cardinality(DOMAIN buf) >= Cardinality(DOMAIN cur)
    THEN buf
    ELSE Garbled

\* lines 28-30 up to the end of json.dump: open(.., "w") truncates the file and
\* json.dump leaves the text of the dict in the buffer of the file object (the
\* text of a few users is far smaller than the buffer).
SaveDump(c) ==
    /\ pc[c] = "reg_save"
    /\ users_json' = Empty
    /\ req' = [req EXCEPT ![c].buffer = USERS]
    /\ pc' = [pc EXCEPT ![c] = "reg_close"]
    /\ UNCHANGED <<USERS, session, uploads, resp, model, preds, shown>>

\* the end of the with block of line 29, where the buffer reaches the file,
\* and lines 80-81
SaveClose(c) ==
    /\ pc[c] = "reg_close"
    /\ users_json' = Overwrite(users_json, req[c].buffer)
    /\ Respond(c, Redirect("login", "Registration successful! Please login."))
    /\ UNCHANGED <<USERS, session, uploads, model, preds, shown>>

StoreNext ==
    \/ \E c \in Callers, e \in Identities, p \in Passwords : RegisterPost(c, e, p)
    \/ \E c \in Callers : RegisterStore(c)
    \/ \E c \in Callers : SaveDump(c)
    \/ \E c \in Callers : SaveClose(c)

StoreSpec == Init /\ [][StoreNext]_vars

\* ---- the classifier on its own ----
\* The model file is whatever is found at model_path: its input size and the
\* width of its output layer are properties of the file.  A loaded model may
\* return any vector of its width.
Outputs == 4..6
InputSizes == {224, 299}
Probs == {k * 24334 : k \in 0..MaxLevel}
ExampleVector == <<2000, 5000, 10000, 73000, 10000>>
Vectors == UNION {[1..n -> Probs] : n \in Outputs} \cup {ExampleVector}

ClassifierInit ==
    /\ AppInit
    /\ model \in [state : {"file"}, input : InputSizes, outputs : Outputs]
    /\ preds = <<>>
    /\ shown = NoResult

\* lines 44-45: the file is loaded as it is
load_model ==
    /\ model.state = "file"
    /\ model' = [model EXCEPT !.state = "loaded"]
    /\ UNCHANGED <<appvars, preds, shown>>

\* lines 136-140 of the first request: model.predict on a 299x299x3 batch
Infer(v) ==
    /\ model.state = "loaded"
    /\ Len(v) = model.outputs
    /\ preds = <<>> /\ shown = NoResult
    /\ IF model.input = 299
       THEN preds' = v /\ UNCHANGED shown
       ELSE shown' = ValueError /\ UNCHANGED preds
    /\ UNCHANGED <<appvars, model>>

\* lines 141-145
MapResult ==
    /\ preds # <<>> /\ shown = NoResult
    /\ shown' = ResultOf(preds)
    /\ UNCHANGED <<appvars, model, preds>>

ClassifierNext ==
    \/ load_model
    \/ \E v \in Vectors : Infer(v)
    \/ MapResult

ClassifierSpec == ClassifierInit /\ [][ClassifierNext]_vars

TypeOK ==
    /\ DOMAIN USERS \subseteq Identities
    /\ \A e \in DOMAIN USERS : USERS[e] \in Hashes
    /\ users_json = Garbled \/ DOMAIN users_json \subseteq DOMAIN USERS
    /\ \A c \in Callers : session[c] \subseteq Identities /\ Cardinality(session[c]) <= 1
    /\ pc \in [Callers -> {"idle", "reg_store", "reg_save", "reg_close", "pred_load"}]

\* ---- vocabulary of the properties ----
\* the credential check of line 101
Verifies(email, password) ==
    email \in DOMAIN USERS /\ check_password_hash(USERS[email], password)

\* the hash stored for email was generated from password
Stored(email, password) ==
    /\ email \in DOMAIN USERS
    /\ \E salt \in Salts : USERS[email] = generate_password_hash(salt, password)

\* the request of caller c has passed the membership test of line 74; from
\* there it runs lines 78-81 and reports success
Winning(c) == pc[c] \in {"reg_store", "reg_save"}

ToLogin(r) == r.kind = "redirect" /\ r.target = "login" /\ r.result = NoResult

\* C1: a step that puts an identity e into a caller's session is a login POST of
\* that caller with identity e and a password matching the hash stored for e;
\* every session starts without an identity, so a session that holds e was
\* preceded by such a login.
C1_SessionOnlyByVerifiedLogin ==
    /\ \A c \in Callers : session[c] = {}
    /\ [][\A c \in Callers :
            (session'[c] # session[c] /\ session'[c] # {}) =>
                \E e \in Identities, p \in Passwords :
                    /\ Login(c, "POST", e, p)
                    /\ p # 0
                    /\ Verifies(e, p)
                    /\ session'[c] = {e}]_vars

C1_Witness ==
    /\ session["c1"] = {"a@x"}
    /\ resp["c1"] = Redirect("predict", "Login successful!")

\* C2: in every reachable state, no predict request, GET or POST, of a caller
\* whose session holds no identity can end otherwise than answered by a
\* redirect to login, with the upload folder untouched and the request over
\* before the inference step.
C2_UnauthenticatedPredictRedirects ==
    \A c \in Callers :
        (pc[c] = "idle" /\ session[c] = {}) =>
            \A m \in Methods, f \in Filenames, b \in Bytes :
            ~ENABLED (/\ Predict(c, m, f, b)
                      /\ ~(/\ resp'[c] = Redirect("login", "")
                           /\ uploads' = uploads
                           /\ pc'[c] = "idle"))

C2_Witness ==
    /\ session["c1"] = {}
    /\ resp["c1"] = Redirect("login", "")
    /\ session["c2"] # {}

\* C3 as claimed: every login POST whose identity and password verify against
\* the credential store leaves the caller's session holding that identity.
C3_AsClaimed ==
    \A c \in Callers, e \in Emails, p \in Passwords :
        Verifies(e, p) =>
            ~ENABLED (Login(c, "POST", e, p) /\ session'[c] # {e})

\* C3 amended: a login POST of a caller whose session holds no identity, with a
\* non-empty identity and a non-empty password that verify, leaves the session
\* holding exactly that identity, so the next authorization check passes for it.
C3_LoginThenAuthorize ==
    \A c \in Callers :
        (pc[c] = "idle" /\ session[c] = {}) =>
            \A e \in Emails, p \in Passwords :
            (e # "" /\ p # 0 /\ Verifies(e, p)) =>
            ~ENABLED (/\ Login(c, "POST", e, p)
                      /\ ~(session'[c] = {e} /\ login_required(session'[c])))

C3_Witness ==
    /\ session["c2"] = {"b@x"}
    /\ resp["c2"] = Redirect("predict", "Login successful!")
    /\ session["c1"] = {}

C5_DuplicateRegisterRejected ==
    \A c \in Callers, e \in DOMAIN USERS :
        pc[c] = "idle" =>
            \A p \in Passwords :
            ~ENABLED (/\ RegisterPost(c, e, p)
                      /\ ~(/\ resp'[c] = Redirect("register", "User already exists")
                           /\ pc'[c] = "idle"
                           /\ USERS' = USERS
                           /\ users_json' = users_json))

C5_Witness ==
    /\ resp["c1"] = Redirect("register", "User already exists")
    /\ DOMAIN users_json = {"a@x"}

\* C6: of the register requests for one identity at most one gets past the
\* membership test and reports success, and no request can replace a hash
\* that is stored for an identity.
C6_SingleWinner ==
    /\ \A c1, c2 \in Callers :
            (c1 # c2 /\ Winning(c1) /\ Winning(c2)) => req[c1].email # req[c2].email
    /\ \A c \in Callers :
            ~ENABLED (RegisterStore(c) /\ \E e \in DOMAIN USERS : USERS'[e] # USERS[e])

C8_Rejection(sess, email, password) ==
    IF sess # {} THEN Redirect("predict", "")
    ELSE IF email = "" \/ password = 0
    THEN Redirect("login", "Please enter email and password")
    ELSE Redirect("login", "Wrong email or password")

\* C8: in every reachable state, a login POST for an identity that is not
\* registered and one for a registered identity whose password does not match
\* can only end with the same response, which the caller's session and the
\* password alone determine, and with the sessions, USERS, users.json and the
\* upload folder as they were.
C8_RejectionHidesExistence ==
    \A c \in Callers :
        pc[c] = "idle" =>
            \A e \in Identities, p \in Passwords :
            ~Verifies(e, p) =>
            ~ENABLED (/\ Login(c, "POST", e, p)
                      /\ ~(/\ resp'[c] = C8_Rejection(session[c], e, p)
                           /\ session' = session
                           /\ UNCHANGED <<USERS, users_json, uploads>>))

C8_Witness ==
    /\ DOMAIN USERS = {"a@x"}
    /\ resp["c1"] = Redirect("login", "Wrong email or password")
    /\ resp["c2"] = Redirect("login", "Wrong email or password")
    /\ session["c1"] = {} /\ session["c2"] = {}

\* C9: a caller with no request in flight can always log out; logout answers
\* with the logout page and leaves the session without an identity, whether or
\* not it held one; a second logout right after the first changes nothing.
C9_LogoutIdempotent ==
    /\ [](\A c \in Callers : pc[c] = "idle" => ENABLED Logout(c))
    /\ [][\A c \in Callers :
            Logout(c) =>
                /\ session'[c] = {}
                /\ resp'[c] = LogoutResponse
                /\ pc'[c] = "idle"
                /\ (session[c] = {} /\ resp[c] = LogoutResponse) => UNCHANGED vars]_vars

\* c1 has made no request, so the upload is c2's: c2 was logged in when it
\* logged out.
C9_Witness ==
    /\ pc["c1"] = "idle" /\ resp["c1"] = NoResp
    /\ uploads # Empty
    /\ session["c2"] = {}
    /\ resp["c2"] = LogoutResponse

\* C10: in every reachable state, no predict POST with an empty filename by a
\* caller whose session holds an identity can end otherwise than answered
\* 'Please upload an image' with a redirect to predict, with the upload folder
\* untouched and the request over before the inference step.
C10_EmptyFilenameRejected ==
    \A c \in Callers :
        (pc[c] = "idle" /\ session[c] # {}) =>
            \A b \in Bytes :
            ~ENABLED (/\ Predict(c, "POST", "", b)
                      /\ ~(/\ resp'[c] = Redirect("predict", "Please upload an image")
                           /\ uploads' = uploads
                           /\ pc'[c] = "idle"))

C10_Witness ==
    /\ resp["c1"] = Redirect("predict", "Please upload an image")
    /\ session["c1"] # {}
    /\ uploads = Empty

\* the answer carries a message the user can act on and is not a server error
UserCorrectable(r) == r.kind # "error" /\ r.flash # "" /\ r.result = NoResult

\* C11: in every reachable state, a predict POST in flight whose uploaded bytes
\* do not decode cannot end otherwise than with a user-correctable message: no
\* internal error and no prediction.
C11_DecodeErrorSurfaced ==
    \A c \in Callers :
        (pc[c] = "pred_load" /\ req[c].bytes = 0) =>
            ~ENABLED (PredictInfer(c) /\ ~UserCorrectable(resp'[c]))

\* ---- vocabulary of the classifier properties ----
\* i holds the maximum of v and no earlier index does
FirstMax(v, i) ==
    /\ \A j \in 1..Len(v) : v[j] <= v[i]
    /\ \A j \in 1..(i - 1) : v[j] < v[i]

\* conf (hundredths of a percent) is p (units of 0.00001) rounded to the nearest
RoundedPercent(conf, p) == 10 * conf - 5 <= p /\ p < 10 * conf + 5

Shown == shown # NoResult

\* C12 as claimed: for every vector of length 5, the label is CLASSES[i] for
\* the lowest index i holding the maximum, the confidence is exactly the entry
\* at i and the explanation is the one stored for CLASSES[i].
C12_AsClaimed ==
    (Shown /\ Len(preds) = 5) =>
        \E i \in 1..5 :
            /\ FirstMax(preds, i)
            /\ Len(shown) = 3
            /\ shown[1] = CLASSES[i]
            /\ 10 * shown[2] = preds[i]
            /\ shown[3] = LEVEL_INFO[CLASSES[i]]

\* C12 amended: for every vector of length 5, the label is CLASSES[i] for the
\* lowest index i holding the maximum, the confidence is the entry at i as a
\* percentage rounded to two decimals, and the explanation is the one stored
\* for CLASSES[i]; the vector (0.02, 0.05, 0.10, 0.73, 0.10) gives 'Severe', 73.0.
C12_ResultMapping ==
    /\ (Shown /\ Len(preds) = 5) =>
           \E i \in 1..5 :
               /\ FirstMax(preds, i)
               /\ Len(shown) = 3
               /\ shown[1] = CLASSES[i]
               /\ RoundedPercent(shown[2], preds[i])
               /\ shown[3] = LEVEL_INFO[CLASSES[i]]
    /\ (Shown /\ preds = ExampleVector) =>
           shown = <<"Severe", 7300, "High risk of vision loss. Immediate treatment needed.">>

\* two entries share the maximum, which is not a whole hundredth of a percent
C12_Witness ==
    /\ Shown /\ Len(preds) = 5
    /\ FirstMax(preds, 2) /\ preds[4] = preds[2]
    /\ preds[2] % 10 # 0
    /\ shown[1] = "Mild"

\* C13: a model whose output width is not 5 or whose input size is not 299 is
\* never loaded (startup ends in a fatal error instead), and no request fails
\* on the class-list lookup or inside model.predict.
C13_MismatchFatalAtLoad ==
    /\ model.state = "loaded" => (model.outputs = Len(CLASSES) /\ model.input = 299)
    /\ shown \notin {IndexError, ValueError}

Quiescent == \A c \in Callers : pc[c] = "idle"

\* C14: once every register request has completed, users.json equals USERS;
\* and no register request can report success without its identity being in
\* users.json with the hash that USERS holds for it.
C14_NoLostUpdate ==
    /\ Quiescent => users_json = USERS
    /\ \A c \in Callers :
           pc[c] = "reg_close" =>
               ~ENABLED (/\ SaveClose(c)
                         /\ ~(/\ req[c].email \in DOMAIN users_json'
                              /\ users_json'[req[c].email] = USERS'[req[c].email]))

\* C15: CLASSES has exactly 5 labels, each with a non-empty entry in
\* LEVEL_INFO; whenever predict has mapped a vector whose first maximum is at
\* one of the indices 0..4, both lookups succeeded and the explanation shown is
\* non-empty; and no request ends in a failed explanation lookup.
C15_LookupsSucceed ==
    /\ Len(CLASSES) = 5
    /\ \A i \in 1..Len(CLASSES) :
           CLASSES[i] \in DOMAIN LEVEL_INFO /\ LEVEL_INFO[CLASSES[i]] # ""
    /\ shown # KeyError
    /\ (Shown /\ preds # <<>> /\ \E i \in 1..5 : FirstMax(preds, i)) =>
           /\ shown # IndexError
           /\ Len(shown) = 3
           /\ shown[3] # ""

\* the last index: a vector whose only maximum is its fifth entry has been mapped
C15_Witness ==
    /\ Shown /\ Len(preds) = 5
    /\ \A j \in 1..4 : preds[j] < preds[5]
    /\ shown[1] = "Proliferative DR"
    /\ shown[3] = "Critical stage. Surgery or laser treatment required."

\* the answer of lines 136-154 computed from the file the request itself uploaded
OwnAnswer(r) ==
    IF r.bytes = 0
    THEN InternalError
    ELSE Render("prediction.html", "", PredictionResult(r.filename, r.bytes))

\* C16: in every reachable state, the file a predict POST in flight is about to
\* load holds the bytes that request uploaded, and the request cannot end
\* with an answer other than the one computed from its own upload.
C16_OwnUploadOnly ==
    \A c \in Callers :
        pc[c] = "pred_load" =>
            /\ uploads[req[c].filename] = req[c].bytes
            /\ ~ENABLED (PredictInfer(c) /\ resp'[c] # OwnAnswer(req[c]))

\* a step leaves the credential store as it was
StoreUnchanged == USERS' = USERS /\ users_json' = users_json

RejectedLogin(r) ==
    \/ r = Redirect("login", "Wrong email or password")
    \/ r = Redirect("login", "Please enter email and password")

====
